---- MODULE Spec2Model ----
(***************************************************************************)
(* A model of kafkarecon (src/kafkarecon.py): the process-wide session     *)
(* state S, the command loop of main(), and the handlers exec_load,        *)
(* exec_connect, exec_disconnect and exec_cluster.  One action is one      *)
(* whole command: the prompt, the dispatch and the handler it calls;       *)
(* the cluster command, which waits for the cluster, is one action up to   *)
(* each call it waits in and one action for each return of such a call.    *)
(*                                                                         *)
(* The client library (AdminClient, Consumer) is the environment: a handle  *)
(* construction or a metadata fetch succeeds, raises KafkaException or     *)
(* raises another exception, chosen with \E at each call.  The cluster     *)
(* behind it (its brokers, the IDs it claims, the brokers whose config     *)
(* request fails, the entries the others return) is chosen once, at the    *)
(* start.  What a command printed is kept in out, the library calls it     *)
(* made in calls, each with the timeout the code passed to it; both are    *)
(* overwritten by the next command.                                        *)
(***************************************************************************)
EXTENDS Integers, Sequences, FiniteSets, TLC

VARIABLES
    pc,         \* "start" | "prompt" | "fetch" | "describe" (a cluster command
                \* waiting in list_topics / in result()) | "exited" |
                \* "interrupted" | "crashed"
    config,     \* S.config: a function from keys to values
    admin,      \* S.admin: None or a handle
    consumer,   \* S.consumer: None or a handle
    broker,     \* S.broker: the label shown in the prompt
    handles,    \* number of handles constructed so far (handles are 1..handles)
    closed,     \* the handles on which close() has been called
    uuids,      \* number of uuid4() calls so far
    cmd,        \* the command the last step ran
    arg,        \* its argument (the path of a load)
    calls,      \* the library calls the last command made, in order
    out,        \* what the last command printed, in order
    cluster     \* the cluster the session talks to: what its brokers answer

vars == <<pc, config, admin, consumer, broker, handles, closed, uuids,
          cmd, arg, calls, out, cluster>>

(***************************************************************************)
(* Bounds of the model.                                                    *)
(***************************************************************************)
MaxBrokers == 2     \* broker IDs of a metadata snapshot are 1..MaxBrokers
MaxHandles == 3     \* connect is not taken once it could exceed this
MaxUuid == 2        \* uuid4() is not called more often than this

(***************************************************************************)
(* Values.  A JSON value is a record with a tag and a sequence of strings: *)
(* a scalar has one element, a list has its elements, an object none.      *)
(***************************************************************************)
None == 0
NOT_CONNECTED == "not connected"

Str(s) == [t |-> "str", v |-> <<s>>]
List(q) == [t |-> "list", v |-> q]
Obj == [t |-> "obj", v |-> <<>>]
Bool(s) == [t |-> "bool", v |-> <<s>>]

\* str() of a scalar value, as it is shown in the prompt
Text(val) == IF Len(val.v) = 1 THEN val.v[1] ELSE val.t

\* uuid4().hex: the k-th call returns a value no other call returns
Uuid4(k) == Str("uuid4-" \o ToString(k))

\* One printed line or table: its kind, the ID it names, its rows.
Ev(t, id, rows) == [t |-> t, id |-> id, rows |-> rows]
Msg(t) == Ev(t, 0, <<>>)

FetchTimeout == 15      \* list_topics(timeout=15)

\* The timeout the code passes to a library call of kind t: lines 241 and 243
\* pass timeout=15 to list_topics; describe_configs([res])[res].result()
\* (line 294), the constructors and close() are passed none.
TimeoutOf(t) == IF t = "list_topics" THEN FetchTimeout ELSE None

\* One call into the client library.
Call(t, h, id, res, conf) ==
    [t |-> t, h |-> h, id |-> id, res |-> res, conf |-> conf, timeout |-> TimeoutOf(t)]

(***************************************************************************)
(* The files a load can name, and what open() + json.load() make of them.  *)
(***************************************************************************)
Parse(fpath) ==
    CASE fpath = "missing.json" -> [kind |-> "missing", obj |-> <<>>]
      [] fpath = "broken.json"  -> [kind |-> "unparseable", obj |-> <<>>]
      [] fpath = "array.json"   -> [kind |-> "array", obj |-> <<>>]
      [] fpath = "scalar.json"  -> [kind |-> "scalar", obj |-> <<>>]
      [] fpath = "empty.json"   -> [kind |-> "object", obj |-> <<>>]
      [] fpath = "a.json"       -> [kind |-> "object", obj |->
            ("bootstrap.servers" :> Str("b1")) @@ ("security.protocol" :> Str("SSL"))]
      [] fpath = "b.json"       -> [kind |-> "object", obj |->
            ("security.protocol" :> Str("PLAINTEXT")) @@ ("group.id" :> Str("g1"))]
      [] fpath = "list.json"    -> [kind |-> "object", obj |->
            ("bootstrap.servers" :> List(<<"b1", "b2">>))]
      [] fpath = "emptylist.json" -> [kind |-> "object", obj |->
            ("bootstrap.servers" :> List(<<>>))]
      [] fpath = "nested.json"  -> [kind |-> "object", obj |->
            ("security.protocol" :> Obj)]

Docs == {"missing.json", "broken.json", "array.json", "scalar.json", "empty.json",
         "a.json", "b.json", "list.json", "emptylist.json", "nested.json"}

\* The files of the specification that explores the cluster command in full.
ClusterDocs == {"a.json"}

(***************************************************************************)
(* exec_load and print_config.                                             *)
(***************************************************************************)
\* open() or json.load() raised (lines 122-127)
LoadRaises(doc) == doc.kind \in {"missing", "unparseable"}

\* isinstance(new, dict) (line 128)
IsDict(doc) == doc.kind = "object"

\* An assignment in place of the merge: the store becomes the document.
MergeReplace(cfg, new) == new

\* A merge in which the old value wins: the operands of |= swapped.
MergeKeepOld(cfg, new) ==
    [k \in DOMAIN cfg \cup DOMAIN new |-> IF k \in DOMAIN cfg THEN cfg[k] ELSE new[k]]

\* config |= new (line 131)
Merge(cfg, new) ==
    [k \in DOMAIN cfg \cup DOMAIN new |-> IF k \in DOMAIN new THEN new[k] ELSE cfg[k]]

\* print_config (lines 137-141)
PrintConfig(cfg) ==
    IF DOMAIN cfg = {} THEN <<Msg("No configuration")>>
    ELSE <<Ev("config_table", Cardinality(DOMAIN cfg), <<>>)>>

\* A load that empties the store when it rejects a document.
ExecLoadClear(cfg, fpath) ==
    LET doc == Parse(fpath) IN
    IF LoadRaises(doc) THEN [config |-> cfg, out |-> <<Msg("Could not load file")>>]
    ELSE IF ~IsDict(doc)
         THEN [config |-> <<>>, out |-> <<Msg("Configuration must be an object")>>]
    ELSE [config |-> Merge(cfg, doc.obj),
          out |-> <<Msg("Loaded configuration from file")>> \o PrintConfig(doc.obj)]

\* exec_load (lines 121-134): the store afterwards and what was printed
ExecLoad(cfg, fpath) ==
    LET doc == Parse(fpath) IN
    IF LoadRaises(doc) THEN [config |-> cfg, out |-> <<Msg("Could not load file")>>]
    ELSE IF ~IsDict(doc)
         THEN [config |-> cfg, out |-> <<Msg("Configuration must be an object")>>]
    ELSE [config |-> Merge(cfg, doc.obj),
          out |-> <<Msg("Loaded configuration from file")>> \o PrintConfig(doc.obj)]

(***************************************************************************)
(* The session at process start (lines 16-25) and the initial load         *)
(* (lines 42-46).                                                          *)
(***************************************************************************)
InitWith(clusters) ==
    /\ cluster \in clusters
    /\ pc = "start"
    /\ config = <<>>
    /\ admin = None
    /\ consumer = None
    /\ broker = NOT_CONNECTED
    /\ handles = 0
    /\ closed = {}
    /\ uuids = 0
    /\ cmd = ""
    /\ arg = ""
    /\ calls = <<>>
    /\ out = <<>>

Session == <<admin, consumer, broker, handles, closed, cluster>>

\* main() before the loop: -c <file> loads it, otherwise a notice
StartWithConfig(docs) ==
    /\ pc = "start"
    /\ \E f \in docs :
        LET r == ExecLoad(config, f) IN
        /\ config' = r.config
        /\ out' = r.out
        /\ arg' = f
    /\ pc' = "prompt"
    /\ cmd' = "start"
    /\ calls' = <<>>
    /\ UNCHANGED <<Session, uuids>>

StartWithoutConfig ==
    /\ pc = "start"
    /\ pc' = "prompt"
    /\ cmd' = "start"
    /\ arg' = ""
    /\ out' = <<Msg("Started without initial configuration")>>
    /\ calls' = <<>>
    /\ UNCHANGED <<config, Session, uuids>>

(***************************************************************************)
(* Commands without a handler of their own (lines 58-88, 113-114).         *)
(***************************************************************************)
\* A command that only prints: the session and the store stay as they are.
Plain(c, printed) ==
    /\ pc = "prompt"
    /\ cmd' = c
    /\ arg' = ""
    /\ out' = printed
    /\ calls' = <<>>
    /\ UNCHANGED <<pc, config, Session, uuids>>

CmdEmpty == Plain("", <<>>)
CmdHelp == Plain("help", <<Ev("help_table", 0, <<>>)>>)
CmdConfig == Plain("config", PrintConfig(config))
CmdLoadUsage == Plain("load", <<Msg("usage: load <file>")>>)
CmdUnknown == Plain("bogus", <<Msg("Command not found")>>)

CmdExit ==
    /\ pc = "prompt"
    /\ pc' = "exited"
    /\ cmd' = "exit"
    /\ arg' = ""
    /\ out' = <<>>
    /\ calls' = <<>>
    /\ UNCHANGED <<config, Session, uuids>>

\* An exception that leaves main() at the prompt is reported by the
\* catch-all of lines 347-348 and ends the process.
InputRaises(c) ==
    /\ pc = "prompt"
    /\ pc' = "crashed"
    /\ cmd' = c
    /\ arg' = ""
    /\ out' = <<Msg("ERROR")>>
    /\ calls' = <<>>
    /\ UNCHANGED <<config, Session, uuids>>

\* line 60: shlex.split raises ValueError on a line with an unclosed quote
CmdUnclosedQuote == InputRaises("'")

\* line 60: input() raises EOFError at the end of the input
EndOfInput == InputRaises("^D")

CmdLoad(docs) ==
    /\ pc = "prompt"
    /\ \E f \in docs :
        LET r == ExecLoad(config, f) IN
        /\ config' = r.config
        /\ out' = r.out
        /\ arg' = f
    /\ cmd' = "load"
    /\ calls' = <<>>
    /\ UNCHANGED <<pc, Session, uuids>>

(***************************************************************************)
(* exec_connect (lines 149-201).                                           *)
(***************************************************************************)
\* What a handle construction, a metadata fetch or a config request can do:
\* return, raise the library's exception, or raise another one.
Outcomes == {"ok", "KafkaException", "TypeError", "RuntimeError"}

\* except KafkaException (lines 184, 200, 244, 310) catches only that type
Caught(res) == res = "KafkaException"
Uncaught(res) == res \notin {"ok", "KafkaException"}

\* Ctrl-C while a library call runs is a KeyboardInterrupt raised in it.
Interruptible(outcomes) == outcomes \cup {"KeyboardInterrupt"}

\* How a command ends that the exception raised left ("" when none did):
\* lines 344-346 for KeyboardInterrupt, lines 347-348 for the others
EndedBy(raised) ==
    IF raised = "" THEN "prompt"
    ELSE IF raised = "KeyboardInterrupt" THEN "interrupted"
    ELSE "crashed"
ReportOf(raised) ==
    IF EndedBy(raised) = "crashed" THEN <<Msg("ERROR")>> ELSE <<>>

\* lines 155-158: a missing group.id is generated and stored in the mapping
GroupDefault(cfg, n) ==
    IF "group.id" \notin DOMAIN cfg
    THEN ("group.id" :> Uuid4(n + 1)) @@ cfg
    ELSE cfg

\* line 160
HasBootstrap(cfg) == "bootstrap.servers" \in DOMAIN cfg

\* lines 173-181: the four allow-listed keys, plus the resolved address
AdminKeys == {"security.protocol", "ssl.ca.location",
              "ssl.certificate.location", "ssl.key.location"}
AdminConf(cfg, server) ==
    ("bootstrap.servers" :> Str(server)) @@ [k \in DOMAIN cfg \cap AdminKeys |-> cfg[k]]

\* A consumer configuration without the override: the stored value goes out.
ConsumerConfRaw(cfg, server) ==
    ("enable.partition.eof" :> Bool("true")) @@ cfg

\* lines 193-197: the whole mapping, the resolved address, the forced flag
ConsumerConf(cfg, server) ==
    ("enable.partition.eof" :> Bool("true")) @@ ("bootstrap.servers" :> Str(server)) @@ cfg

\* The indices random.choice can draw (line 166); a scalar needs no draw.
Picks(cfg) ==
    IF HasBootstrap(cfg) /\ cfg["bootstrap.servers"].t = "list"
       /\ cfg["bootstrap.servers"].v # <<>>
    THEN 1..Len(cfg["bootstrap.servers"].v)
    ELSE {1}

\* exec_connect on store cfg and session s, with the outcome of the two
\* constructions and the index random.choice draws.  raised is the exception
\* that leaves the function, "" when it returns.
ExecConnect(cfg, s, aRes, cRes, pick) ==
    LET gen  == "group.id" \notin DOMAIN cfg
        cfg1 == GroupDefault(cfg, s.uuids)
        u1   == IF gen THEN s.uuids + 1 ELSE s.uuids
        pre  == IF gen THEN <<Msg("Group ID not configured, using")>> ELSE <<>>
        same == [config |-> cfg1, admin |-> s.admin, consumer |-> s.consumer,
                 broker |-> s.broker, handles |-> s.handles, uuids |-> u1,
                 calls |-> <<>>, out |-> pre, raised |-> ""]
    IN
    IF ~HasBootstrap(cfg1)
    THEN [same EXCEPT !.out = pre \o <<Msg("Bootstrap server not configured")>>]
    ELSE
    LET bs == cfg1["bootstrap.servers"] IN
    IF bs.t = "list" /\ bs.v = <<>>
    THEN [same EXCEPT !.raised = "IndexError"]      \* random.choice([])
    ELSE
    LET server == IF bs.t = "list" THEN bs.v[pick] ELSE Text(bs)
        aOk == aRes = "ok"
        h1  == IF aOk THEN s.handles + 1 ELSE s.handles
        cOk == cRes = "ok"
        h2  == IF cOk THEN h1 + 1 ELSE h1
    IN
    IF Uncaught(aRes)
    THEN [same EXCEPT !.calls = <<Call("AdminClient", None, 0, aRes,
                                       AdminConf(cfg1, server))>>,
                      !.raised = aRes]
    ELSE
    [config   |-> cfg1,
     admin    |-> IF aOk THEN h1 ELSE s.admin,
     consumer |-> IF cOk THEN h2 ELSE s.consumer,
     broker   |-> IF aOk \/ cOk THEN server ELSE s.broker,
     handles  |-> h2,
     uuids    |-> u1,
     calls    |-> <<Call("AdminClient", IF aOk THEN h1 ELSE None, 0, aRes,
                         AdminConf(cfg1, server)),
                    Call("Consumer", IF cOk THEN h2 ELSE None, 0, cRes,
                         ConsumerConf(cfg1, server))>>,
     out      |-> pre \o
                  <<IF aOk THEN Msg("Admin client connected")
                           ELSE Msg("Admin client connection failed")>> \o
                  (IF cOk THEN <<Msg("Consumer connected")>>
                   ELSE IF Caught(cRes) THEN <<Msg("Consumer connection failed")>>
                   ELSE <<>>),
     raised   |-> IF Uncaught(cRes) THEN cRes ELSE ""]

\* lines 94-97: connect on an empty store never reaches exec_connect
CmdConnectNoConfig ==
    /\ DOMAIN config = {}
    /\ Plain("connect", <<Msg("Configuration required")>>)

\* lines 94, 98 and exec_connect; an exception that leaves exec_connect
\* leaves main() too and is reported by the catch-all of lines 347-348
CmdConnect ==
    /\ pc = "prompt"
    /\ DOMAIN config # {}
    /\ handles + 2 <= MaxHandles
    /\ "group.id" \notin DOMAIN config => uuids < MaxUuid
    /\ \E aRes \in Interruptible(Outcomes), cRes \in Interruptible(Outcomes),
          pick \in Picks(config) :
        LET r == ExecConnect(config,
                     [admin |-> admin, consumer |-> consumer, broker |-> broker,
                      handles |-> handles, uuids |-> uuids], aRes, cRes, pick)
        IN
        /\ config' = r.config
        /\ admin' = r.admin
        /\ consumer' = r.consumer
        /\ broker' = r.broker
        /\ handles' = r.handles
        /\ uuids' = r.uuids
        /\ calls' = r.calls
        /\ out' = r.out \o ReportOf(r.raised)
        /\ pc' = EndedBy(r.raised)
    /\ cmd' = "connect"
    /\ arg' = ""
    /\ UNCHANGED <<closed, cluster>>

(***************************************************************************)
(* exec_disconnect (lines 204-212).  The handles are passed by value and   *)
(* the function assigns nothing to S.  The two close() calls are in no try *)
(* block: whatever one of them raises, a KafkaException included, leaves   *)
(* the function and main().                                                *)
(***************************************************************************)
\* What a close() can do: return, or raise.
CloseOutcomes == Interruptible(Outcomes \cup {"AttributeError"})

\* exec_disconnect on handles a and c, with the outcome of the two close()
\* calls: the calls made, the lines printed, the handles close() returned
\* for, and the exception that left the function ("" when it returned).
ExecDisconnect(a, c, aRes, cRes) ==
    IF a = None /\ c = None
    THEN [calls |-> <<>>, out |-> <<Msg("Not connected")>>, closed |-> {}, raised |-> ""]
    ELSE
    LET aCall == IF a # None THEN <<Call("close", a, 0, aRes, <<>>)>> ELSE <<>>
        aDone == a # None /\ aRes = "ok"
        aOut  == IF aDone THEN <<Msg("Admin disconnected")>> ELSE <<>>
        aSet  == IF aDone THEN {a} ELSE {}
    IN
    IF a # None /\ aRes # "ok"
    THEN [calls |-> aCall, out |-> <<>>, closed |-> {}, raised |-> aRes]
    ELSE IF c = None
    THEN [calls |-> aCall, out |-> aOut, closed |-> aSet, raised |-> ""]
    ELSE IF cRes # "ok"
    THEN [calls |-> aCall \o <<Call("close", c, 0, cRes, <<>>)>>,
          out |-> aOut, closed |-> aSet, raised |-> cRes]
    ELSE [calls |-> aCall \o <<Call("close", c, 0, "ok", <<>>)>>,
          out |-> aOut \o <<Msg("Consumer disconnected")>>,
          closed |-> aSet \cup {c}, raised |-> ""]

\* A disconnect that empties the two slots and leaves the label.
CmdDisconnectClearing ==
    /\ pc = "prompt"
    /\ \E aRes \in CloseOutcomes, cRes \in CloseOutcomes :
        LET r == ExecDisconnect(admin, consumer, aRes, cRes) IN
        /\ calls' = r.calls
        /\ out' = r.out \o ReportOf(r.raised)
        /\ closed' = closed \cup r.closed
        /\ pc' = EndedBy(r.raised)
    /\ admin' = None
    /\ consumer' = None
    /\ cmd' = "disconnect"
    /\ arg' = ""
    /\ UNCHANGED <<config, broker, handles, uuids, cluster>>

\* lines 99-100 and exec_disconnect
CmdDisconnect ==
    /\ pc = "prompt"
    /\ \E aRes \in CloseOutcomes, cRes \in CloseOutcomes :
        LET r == ExecDisconnect(admin, consumer, aRes, cRes) IN
        /\ calls' = r.calls
        /\ out' = r.out \o ReportOf(r.raised)
        /\ closed' = closed \cup r.closed
        /\ pc' = EndedBy(r.raised)
    /\ cmd' = "disconnect"
    /\ arg' = ""
    /\ UNCHANGED <<config, admin, consumer, broker, handles, uuids, cluster>>

(***************************************************************************)
(* exec_cluster (lines 219-311).                                           *)
(*                                                                         *)
(* A metadata snapshot is its broker IDs in the order meta.brokers         *)
(* enumerates them, and the two IDs it claims.  A configuration name is    *)
(* the sequence of its character codes, so that substring tests, slices    *)
(* and sorted() are those of Python strings.  The entries a broker returns *)
(* are the set of their names (an entry's name is its key).                *)
(***************************************************************************)
BrokerIds == 1..MaxBrokers

SSL_CLIENT_AUTH == <<115, 115, 108, 46, 99, 108, 105, 101, 110, 116, 46, 97, 117, 116, 104>>
N_SSL == <<115, 115, 108>>                                  \* "ssl"
N_AUTH == <<97, 117, 116, 104>>                             \* "auth"
N_LOG_DIRS == <<108, 111, 103, 46, 100, 105, 114, 115>>     \* "log.dirs"
N_SSL_CLIENT_AUTH_X == SSL_CLIENT_AUTH \o <<46, 120>>       \* "ssl.client.auth.x"

NameWidth == 40     \* e.name[:40]

\* Python's  k in s  for two strings
IsSubstring(k, s) ==
    \E i \in 0..(Len(s) - Len(k)) : SubSeq(s, i + 1, i + Len(k)) = k

\* lines 305-307:  k in ("ssl.client.auth")  -- the parentheses hold a string
Allowed(k) == IsSubstring(k, SSL_CLIENT_AUTH)

\* Python's  a < b  for two strings
LexLess(a, b) ==
    \/ \E i \in 1..Len(a) :
          /\ i <= Len(b)
          /\ a[i] < b[i]
          /\ \A j \in 1..(i - 1) : a[j] = b[j]
    \/ /\ Len(a) < Len(b)
       /\ \A j \in 1..Len(a) : a[j] = b[j]

\* sorted() of a set of names (line 295)
RECURSIVE SortNames(_)
SortNames(names) ==
    IF names = {} THEN <<>>
    ELSE LET m == CHOOSE x \in names : \A y \in names \ {x} : LexLess(x, y)
         IN <<m>> \o SortNames(names \ {m})

\* s[:n]
Slice(s, n) == SubSeq(s, 1, IF Len(s) < n THEN Len(s) ELSE n)

\* The rows of one broker's config table (lines 295-309): the name column.
RenderRows(entries) ==
    LET kept == SortNames({k \in entries : Allowed(k)})
    IN [i \in 1..Len(kept) |-> Slice(kept[i], NameWidth)]

\* sorted(..., key=lambda b: b.id) (line 268)
RECURSIVE SortIds(_)
SortIds(ids) ==
    IF ids = <<>> THEN <<>>
    ELSE LET S == {ids[i] : i \in 1..Len(ids)}
             m == CHOOSE x \in S : \A y \in S : x <= y
             i == CHOOSE j \in 1..Len(ids) : ids[j] = m
         IN <<m>> \o SortIds(SubSeq(ids, 1, i - 1) \o SubSeq(ids, i + 1, Len(ids)))

\* The rows of the broker table (lines 268-272): the ID column.
BrokerRows(ids) == LET q == SortIds(ids) IN [i \in 1..Len(q) |-> <<q[i]>>]

\* line 291: the loop enumerates meta.brokers.values(), not the sorted list
LoopOrder(order) == order

\* lines 294-311: what one turn of the loop prints for broker b when its
\* request returned (res = "ok") or raised KafkaException
DescribeOutcome(b, res, entries) ==
    IF res = "ok" THEN Ev("broker_config_table", b, RenderRows(entries))
                  ELSE Ev("Could not describe broker", b, <<>>)

\* A loop whose try block encloses the for statement: the first failure ends it.
AfterTurnAbort(done, todo, res) ==
    IF done = Len(todo) \/ res # "ok" THEN "prompt" ELSE "describe"

\* lines 291, 310-311: the except clause is inside the loop body, so after a
\* turn the loop goes on to the next broker until all have had their turn
AfterTurn(done, todo, res) ==
    IF done = Len(todo) THEN "prompt" ELSE "describe"

\* A report that prints the claimed IDs without looking them up.
MetaReportTrusting(meta) ==
    <<Msg("Cluster ID"),
      Msg("Metadata origin broker name"),
      Ev("broker_table", 0, BrokerRows(meta.order)),
      Ev("Metadata origin broker ID", meta.orig, <<>>),
      Ev("Controller broker ID", meta.ctrl, <<>>)>>

\* lines 264-284: the report of a snapshot
MetaReport(meta) ==
    LET S == {meta.order[i] : i \in 1..Len(meta.order)} IN
    <<Msg("Cluster ID"),
      Msg("Metadata origin broker name"),
      Ev("broker_table", 0, BrokerRows(meta.order)),
      IF meta.orig \in S THEN Ev("Metadata origin broker ID", meta.orig, <<>>)
                         ELSE Ev("Invalid metadata origin broker ID", meta.orig, <<>>),
      IF meta.ctrl \in S THEN Ev("Controller broker ID", meta.ctrl, <<>>)
                         ELSE Ev("Invalid controller broker ID", meta.ctrl, <<>>)>>

\* A guard that asks only for a handle, not for the admin handle.
LoopGuardAnyHandle(a, c) == a # None \/ c # None

\* line 290: the per-broker loop runs only with an admin handle
LoopGuard(a, c) == a # None

\* lines 240-243: the handle the metadata fetch is called on
FetchHandle(a, c) == IF a # None THEN a ELSE c

(***************************************************************************)
(* The clusters a session can face.                                        *)
(***************************************************************************)
\* The enumerations of the broker sets {1..n}, n <= MaxBrokers
Orders ==
    UNION {{q \in [1..n -> 1..n] : \A i, j \in 1..n : q[i] = q[j] => i = j}
           : n \in 0..MaxBrokers}

\* The IDs a snapshot claims for its origin and its controller
IdClaims == {1, -1}

EntrySets == {{N_LOG_DIRS},
              {SSL_CLIENT_AUTH, N_LOG_DIRS},
              {N_AUTH, SSL_CLIENT_AUTH, N_SSL_CLIENT_AUTH_X, N_SSL}}

Members(order) == {order[i] : i \in 1..Len(order)}

\* A cluster: the snapshot it gives (order, orig, ctrl), the brokers whose
\* config request raises KafkaException, and the entries the others return.
Clusters ==
    {cl \in [order : Orders, orig : IdClaims, ctrl : IdClaims,
             failing : SUBSET BrokerIds, entries : EntrySets] :
        cl.failing \subseteq Members(cl.order)}

\* The clusters of the specification that explores the session in full.
FewClusters ==
    {cl \in Clusters :
        /\ cl.order = <<2, 1>>
        /\ cl.orig = 1
        /\ cl.ctrl = -1
        /\ cl.failing = {2}
        /\ cl.entries = {SSL_CLIENT_AUTH, N_LOG_DIRS}}

(***************************************************************************)
(* The cluster command call by call.  pc is "fetch" while list_topics runs *)
(* and "describe" while the per-broker loop waits for a result(); the      *)
(* brokers already asked are the describe_configs calls in calls.          *)
(*                                                                         *)
(* list_topics is given timeout=15 (lines 241, 243);                       *)
(* describe_configs([res])[res].result() (line 294) is given neither a     *)
(* request_timeout nor a timeout.  How long a call takes to return is the  *)
(* library's business; the model says what happens when it does.           *)
(***************************************************************************)
\* lines 106-107, 219-223 and 238-243: the handle check, then the metadata
\* fetch starts
CmdCluster ==
    /\ pc = "prompt"
    /\ cmd' = "cluster"
    /\ arg' = ""
    /\ calls' = <<>>
    /\ IF admin = None /\ consumer = None
       THEN pc' = "prompt" /\ out' = <<Msg("Not connected")>>
       ELSE pc' = "fetch" /\ out' = <<>>
    /\ UNCHANGED <<config, Session, uuids>>

\* The brokers the loop has asked so far, and the one it is waiting for
Asked == Len(SelectSeq(calls, LAMBDA c : c.t = "describe_configs"))
Waiting == LoopOrder(cluster.order)[Asked + 1]

\* The call a cluster command is waiting in, as it ends with res
PendingCall(res) ==
    IF pc = "fetch"
    THEN Call("list_topics", FetchHandle(admin, consumer), 0, res, <<>>)
    ELSE Call("describe_configs", admin, Waiting, res, <<>>)

\* lines 238-284: list_topics returns or raises KafkaException; the report
\* of the snapshot; line 290 decides whether the loop is entered
ListTopicsReturns ==
    /\ pc = "fetch"
    /\ \E fetch \in Outcomes :
        /\ ~Uncaught(fetch)
        /\ calls' = <<PendingCall(fetch)>>
        /\ out' = IF fetch = "ok" THEN MetaReport(cluster)
                                  ELSE <<Msg("Could not query metadata")>>
        /\ pc' = IF fetch = "ok" /\ LoopGuard(admin, consumer) /\ cluster.order # <<>>
                 THEN "describe" ELSE "prompt"
    /\ UNCHANGED <<config, Session, uuids, cmd, arg>>

\* lines 291-311: one turn of the loop, taken when result() returns or raises
\* KafkaException
DescribeConfigsReturns ==
    /\ pc = "describe"
    /\ LET res == IF Waiting \in cluster.failing THEN "KafkaException" ELSE "ok" IN
        /\ calls' = calls \o <<PendingCall(res)>>
        /\ out' = out \o <<DescribeOutcome(Waiting, res, cluster.entries)>>
        /\ pc' = AfterTurn(Asked + 1, LoopOrder(cluster.order), res)
    /\ UNCHANGED <<config, Session, uuids, cmd, arg>>

\* list_topics or describe_configs(...).result() raises an exception that is
\* not a KafkaException: lines 244 and 310 do not catch it, it leaves
\* exec_cluster and main(), and the catch-all of lines 347-348 reports it
ClusterCallRaises ==
    /\ pc \in {"fetch", "describe"}
    /\ \E res \in Outcomes :
        /\ Uncaught(res)
        /\ calls' = calls \o <<PendingCall(res)>>
    /\ out' = out \o <<Msg("ERROR")>>
    /\ pc' = "crashed"
    /\ UNCHANGED <<config, Session, uuids, cmd, arg>>

\* Ctrl-C: KeyboardInterrupt, raised at the prompt (line 60) or in the call a
\* cluster command waits in, caught around main() at lines 344-346
Interrupt ==
    /\ pc \in {"prompt", "fetch", "describe"}
    /\ pc' = "interrupted"
    /\ IF pc = "prompt"
       THEN /\ cmd' = "^C"
            /\ arg' = ""
            /\ out' = <<>>
            /\ calls' = <<>>
       ELSE /\ calls' = calls \o <<PendingCall("KeyboardInterrupt")>>
            /\ UNCHANGED <<cmd, arg, out>>
    /\ UNCHANGED <<config, Session, uuids>>

(***************************************************************************)
(* The command loop (lines 52-114).                                        *)
(***************************************************************************)
Step(docs) ==
    \/ StartWithConfig(docs)
    \/ StartWithoutConfig
    \/ CmdEmpty
    \/ CmdExit
    \/ CmdHelp
    \/ CmdConfig
    \/ CmdLoadUsage
    \/ CmdLoad(docs)
    \/ CmdConnectNoConfig
    \/ CmdConnect
    \/ CmdDisconnect
    \/ CmdCluster
    \/ ListTopicsReturns
    \/ DescribeConfigsReturns
    \/ ClusterCallRaises
    \/ CmdUnknown
    \/ CmdUnclosedQuote
    \/ EndOfInput
    \/ Interrupt

\* Every file, a few clusters.
Init == InitWith(FewClusters)
Next == Step(Docs)
Spec == Init /\ [][Next]_vars

\* One file, every cluster, and the commands
\* that decide which handles a cluster command is given.
ClusterInit == InitWith(Clusters)
ClusterNext ==
    \/ StartWithConfig(ClusterDocs)
    \/ StartWithoutConfig
    \/ CmdLoad(ClusterDocs)
    \/ CmdConnectNoConfig
    \/ CmdConnect
    \/ CmdCluster
    \/ ListTopicsReturns
    \/ DescribeConfigsReturns
    \/ ClusterCallRaises
    \/ Interrupt
ClusterSpec == ClusterInit /\ [][ClusterNext]_vars

(***************************************************************************)
(* Properties.                                                             *)
(*                                                                         *)
(* Every command overwrites cmd and arg, so a step with cmd' = "load" and  *)
(* arg' = f is a load of f, and the unprimed variables of that step are    *)
(* the state the command started from.  The later steps of a cluster       *)
(* command leave cmd as it is and add to calls and out.                    *)
(***************************************************************************)
\* The step loads file f: the load command, or the -c option at the start.
IsLoadOf(f) == cmd' \in {"load", "start"} /\ arg' = f

\* The outcomes of the per-broker loop among what a command printed.
IsOutcome(e) == e.t \in {"broker_config_table", "Could not describe broker"}
Outcomes_of(printed) == SelectSeq(printed, IsOutcome)

\* The config requests among the calls of a command.
IsDescribe(c) == c.t = "describe_configs"
Requests(made) == SelectSeq(made, IsDescribe)

\* The last command was a cluster command that had an admin handle and got
\* a metadata snapshot.
DescribedCluster ==
    /\ cmd = "cluster"
    /\ admin # None
    /\ calls # <<>>
    /\ calls[1].t = "list_topics"
    /\ calls[1].res = "ok"

\* C1: a load whose file is missing, unparseable or not an object at top
\* level leaves the store as it was, whatever the store held; and a load
\* leaves the store as it was or holds every key of the document afterwards.
C1_FailedLoadKeepsStore ==
    [][\A f \in Docs :
          IsLoadOf(f) =>
            /\ Parse(f).kind # "object" => config' = config
            /\ \/ config' = config
               \/ \A k \in DOMAIN Parse(f).obj :
                     k \in DOMAIN config' /\ config'[k] = Parse(f).obj[k]]_vars

\* A top-level array was rejected by a load on a store that holds keys.
C1_Witness ==
    /\ cmd = "load"
    /\ arg = "array.json"
    /\ out = <<Msg("Configuration must be an object")>>
    /\ "bootstrap.servers" \in DOMAIN config
    /\ "group.id" \in DOMAIN config

\* C2: a successful load of document D into store C leaves a store whose keys
\* are those of C and D, with D's value for every key of D and C's value for
\* every other key.
C2_LoadIsShallowOverride ==
    [][\A f \in Docs :
          (IsLoadOf(f) /\ Parse(f).kind = "object") =>
            LET D == Parse(f).obj IN
            /\ DOMAIN config' = DOMAIN config \cup DOMAIN D
            /\ \A k \in DOMAIN D : config'[k] = D[k]
            /\ \A k \in DOMAIN config \ DOMAIN D : config'[k] = config[k]]_vars

\* list.json was loaded over a.json: its key is replaced, a.json's other key kept.
C2_Witness ==
    /\ cmd = "load"
    /\ arg = "list.json"
    /\ "security.protocol" \in DOMAIN config
    /\ config["security.protocol"] = Str("SSL")
    /\ config["bootstrap.servers"] = List(<<"b1", "b2">>)

\* C3: connect never throws past its own boundary: after a connect command
\* that the user did not interrupt the loop is back at the prompt, whatever
\* the store held and whatever the constructions did.
C3_ConnectReturns == cmd = "connect" => pc \in {"prompt", "interrupted"}

\* C4: after a connect that went on to construct handles, the admin slot
\* holds a handle exactly when the admin construction of that call succeeded,
\* and the consumer slot likewise.
C4_SlotsAreThisCallsHandles ==
    (cmd = "connect" /\ Len(calls) = 2) =>
        /\ (admin # None) <=> (calls[1].res = "ok")
        /\ (consumer # None) <=> (calls[2].res = "ok")

\* C5: a connect issued while the store has no bootstrap address constructs
\* no handle, and leaves both slots absent and the label at its sentinel.
C5_NoBootstrapNoHandles ==
    [][(cmd' = "connect" /\ ~HasBootstrap(config)) =>
          /\ calls' = <<>>
          /\ admin' = None
          /\ consumer' = None
          /\ broker' = NOT_CONNECTED]_vars

\* A connect on a non-empty store without the key was refused.
C5_Witness ==
    /\ cmd = "connect"
    /\ out # <<>>
    /\ out[Len(out)] = Msg("Bootstrap server not configured")
    /\ "security.protocol" \in DOMAIN config
    /\ calls = <<>>

\* C6: only load changes the store: connect, disconnect, cluster and config
\* leave it equal to what it was.
C6_OnlyLoadMutatesStore ==
    [][cmd' \in {"connect", "disconnect", "cluster", "config"} =>
          config' = config]_vars

\* The process is over.
Ended == pc \in {"exited", "interrupted", "crashed"}

\* C7: the loop never ends because a command failed, whatever the error was:
\* when the process is over, it was ended by exit or by a user interrupt.
C7_LoopEndsOnlyOnExit ==
    Ended => pc \in {"exited", "interrupted"}

\* C8: every row of a rendered config table is an entry whose name is a
\* member of the allow-list, that is, the name ssl.client.auth itself.
C8_OnlyAllowListedRows ==
    \A i \in 1..Len(out) :
        out[i].t = "broker_config_table" =>
            \A j \in 1..Len(out[i].rows) : out[i].rows[j] = SSL_CLIENT_AUTH

\* The config requests that were answered, with a result or a KafkaException.
IsAnswered(c) == IsDescribe(c) /\ ~Uncaught(c.res) /\ c.res # "KeyboardInterrupt"
Answered(made) == SelectSeq(made, IsAnswered)

\* C9: in a cluster command with an admin handle and a snapshot, no broker
\* gets more than one config request and every request is for a broker of the
\* snapshot; every answered request has exactly one outcome, a diagnostic
\* naming its broker when the request failed and a table when it did not; a
\* failed request does not stop the remaining brokers; and when the command
\* has returned, every broker of the snapshot has had exactly one request and
\* exactly one outcome.
C9_PerBrokerIsolation ==
    DescribedCluster =>
        LET reqs == Requests(calls)
            ans  == Answered(calls)
            outs == Outcomes_of(out)
        IN
        /\ \A i \in 1..Len(reqs) : reqs[i].id \in Members(cluster.order)
        /\ \A i, j \in 1..Len(reqs) : reqs[i].id = reqs[j].id => i = j
        /\ Len(outs) = Len(ans)
        /\ \A i \in 1..Len(ans) :
              /\ outs[i].id = ans[i].id
              /\ outs[i].t = "Could not describe broker" <=> ans[i].res = "KafkaException"
              /\ ans[i].res = "KafkaException" <=> ans[i].id \in cluster.failing
        /\ (reqs # <<>> /\ reqs[Len(reqs)].res = "KafkaException"
                        /\ Len(reqs) < Len(cluster.order)) => pc = "describe"
        /\ pc = "prompt" =>
              /\ Len(reqs) = Len(cluster.order)
              /\ Len(outs) = Len(cluster.order)
              /\ \A b \in Members(cluster.order) :
                    /\ Cardinality({i \in 1..Len(reqs) : reqs[i].id = b}) = 1
                    /\ Cardinality({i \in 1..Len(outs) : outs[i].id = b}) = 1

\* The first broker's request failed and the second broker got its table.
C9_Witness ==
    /\ DescribedCluster
    /\ pc = "prompt"
    /\ Len(cluster.order) = 2
    /\ cluster.failing = {cluster.order[1]}
    /\ Len(Outcomes_of(out)) = 2
    /\ Outcomes_of(out)[1].t = "Could not describe broker"
    /\ Outcomes_of(out)[2].t = "broker_config_table"

\* C10: the per-broker outcomes of a cluster command appear in ascending
\* broker-ID order, whatever order the snapshot enumerates its brokers in.
C10_OutcomesAscending ==
    cmd = "cluster" =>
        LET outs == Outcomes_of(out) IN
        \A i, j \in 1..Len(outs) : i < j => outs[i].id < outs[j].id

\* C11: a cluster command sends config requests only when the admin handle is
\* present and its own metadata fetch succeeded; when the fetch fails with the
\* library's exception, the diagnostic is all it prints, the fetch is all it
\* calls and the command returns; a session with only a consumer handle sends
\* no config request.
C11_RequestsNeedAdminAndSnapshot ==
    cmd = "cluster" =>
        /\ Requests(calls) # <<>> =>
              /\ admin # None
              /\ calls[1].t = "list_topics"
              /\ calls[1].res = "ok"
              /\ \A i \in 1..Len(Requests(calls)) : Requests(calls)[i].h = admin
        /\ (calls # <<>> /\ calls[1].res = "KafkaException") =>
              /\ Len(calls) = 1
              /\ out = <<Msg("Could not query metadata")>>
              /\ pc = "prompt"
        /\ admin = None => Requests(calls) = <<>>

\* A consumer-only session got a snapshot of two brokers and sent no request.
C11_Witness ==
    /\ cmd = "cluster"
    /\ pc = "prompt"
    /\ admin = None
    /\ consumer # None
    /\ calls = <<Call("list_topics", consumer, 0, "ok", <<>>)>>
    /\ Len(cluster.order) = 2
    /\ Len(out) = 5

\* The lines that report the origin broker ID and the controller ID.
IsOrigLine(e) ==
    e.t \in {"Metadata origin broker ID", "Invalid metadata origin broker ID"}
IsCtrlLine(e) ==
    e.t \in {"Controller broker ID", "Invalid controller broker ID"}

\* The last command was a cluster command that got a metadata snapshot.
GotSnapshot ==
    /\ cmd = "cluster"
    /\ calls # <<>>
    /\ calls[1].t = "list_topics"
    /\ calls[1].res = "ok"

\* C12: for every snapshot the origin broker ID and the controller ID are
\* each reported once, as valid exactly when the ID is a key of the broker
\* set and as invalid otherwise; the command is not ended by an invalid ID:
\* right after the report it is in the per-broker loop when it has an admin
\* handle and the snapshot has a broker, and when it has returned with an
\* admin handle every broker has had its config request.
C12_ClaimedIdsValidated ==
    GotSnapshot =>
        LET origs == SelectSeq(out, IsOrigLine)
            ctrls == SelectSeq(out, IsCtrlLine)
        IN
        /\ Len(origs) = 1
        /\ origs[1].id = cluster.orig
        /\ origs[1].t = "Metadata origin broker ID"
              <=> cluster.orig \in Members(cluster.order)
        /\ Len(ctrls) = 1
        /\ ctrls[1].id = cluster.ctrl
        /\ ctrls[1].t = "Controller broker ID"
              <=> cluster.ctrl \in Members(cluster.order)
        /\ (Len(calls) = 1 /\ admin # None /\ cluster.order # <<>>) => pc = "describe"
        /\ (pc = "prompt" /\ admin # None) => Len(Requests(calls)) = Len(cluster.order)

\* The controller ID is not among the two brokers; both got their request.
C12_Witness ==
    /\ GotSnapshot
    /\ pc = "prompt"
    /\ admin # None
    /\ Len(cluster.order) = 2
    /\ cluster.orig = 1
    /\ cluster.ctrl = -1
    /\ \E i \in 1..Len(out) : out[i] = Ev("Invalid controller broker ID", -1, <<>>)
    /\ Len(Requests(calls)) = 2

\* C13: a connect that constructs handles resolves the bootstrap address
\* once: it is the configured scalar or a member of the configured list, both
\* constructions receive it, the label equals it afterwards if at least one
\* construction succeeded, and the label is unchanged if both failed.
C13_OneResolvedAddress ==
    [][(cmd' = "connect" /\ Len(calls') = 2) =>
          LET bs == config["bootstrap.servers"]
              a  == calls'[1].conf["bootstrap.servers"]
              c  == calls'[2].conf["bootstrap.servers"]
          IN
          /\ a = c
          /\ a.t = "str"
          /\ bs.t = "list" => \E i \in 1..Len(bs.v) : a = Str(bs.v[i])
          /\ bs.t # "list" => a = bs
          /\ (calls'[1].res = "ok" \/ calls'[2].res = "ok") => broker' = a.v[1]
          /\ (calls'[1].res # "ok" /\ calls'[2].res # "ok") => broker' = broker]_vars

\* The second address of a list was drawn and only the consumer connected.
C13_Witness ==
    /\ cmd = "connect"
    /\ Len(calls) = 2
    /\ config["bootstrap.servers"] = List(<<"b1", "b2">>)
    /\ calls[1].res = "KafkaException"
    /\ calls[2].res = "ok"
    /\ calls[2].conf["bootstrap.servers"] = Str("b2")
    /\ broker = "b2"

\* C14: two connect calls of one session, the first of which had to generate
\* a group ID and with no load between them, construct their consumer
\* handles with different group IDs.
C14_FreshGroupIdPerConnect ==
    [][(/\ cmd = "connect"
        /\ Len(calls) = 2
        /\ out[1] = Msg("Group ID not configured, using")
        /\ cmd' = "connect"
        /\ Len(calls') = 2) =>
          calls'[2].conf["group.id"] # calls[2].conf["group.id"]]_vars

\* An object whose values are all scalars or arrays.
IsFlat(obj) == \A k \in DOMAIN obj : obj[k].t # "obj"

\* C15: a load of a document that is an object at top level but has a value
\* that is itself an object is rejected: it prints a diagnostic and leaves
\* the store as it was.
C15_NestedObjectRejected ==
    [][\A f \in Docs :
          (IsLoadOf(f) /\ Parse(f).kind = "object" /\ ~IsFlat(Parse(f).obj)) =>
            /\ config' = config
            /\ out'[1] # Msg("Loaded configuration from file")]_vars

\* C17: after a disconnect command both handle slots of the session are
\* absent.
C17_DisconnectClearsSlots ==
    (cmd = "disconnect" /\ pc = "prompt") => (admin = None /\ consumer = None)

\* C18: once close() has been called on a handle, no later command calls the
\* metadata fetch, a config request or close() on that handle.
C18_NoCallOnClosedHandle ==
    [][\A i \in 1..Len(calls') :
          calls'[i].t \in {"list_topics", "describe_configs", "close"} =>
              calls'[i].h \notin closed]_vars

\* C19: every handle that was constructed and not closed is held in a slot
\* of the session.
C19_NoHandleLeaked ==
    \A h \in 1..handles : h \notin closed => h \in {admin, consumer}

\* C20: the label is the sentinel exactly when both handle slots are absent.
C20_SentinelIffNoHandles ==
    (broker = NOT_CONNECTED) <=> (admin = None /\ consumer = None)

\* After a disconnect of a session whose admin construction had failed: the
\* label is an address and the consumer slot is not absent.
C20_Witness ==
    /\ cmd = "disconnect"
    /\ pc = "prompt"
    /\ broker = "b1"
    /\ admin = None
    /\ consumer # None
    /\ consumer \in closed

\* The calls of a command that wait for the cluster.
IsClusterCall(c) == c.t \in {"list_topics", "describe_configs"}

\* C16: both the metadata fetch and each per-broker config request of a
\* cluster command are bounded by the timeout: every call of the command
\* that waits for the cluster is given the timeout the metadata fetch is
\* given.
C16_EveryClusterCallBounded ==
    cmd = "cluster" =>
        \A i \in 1..Len(calls) :
            IsClusterCall(calls[i]) => calls[i].timeout = FetchTimeout

====
